---- MODULE Spec2Model ----
(***************************************************************************)
(* A model of the MCP Lens server connection runtime:                      *)
(*   - MCPClient (src/src/utils/mcpClient.ts): one JSON-RPC connection     *)
(*     over the standard streams of a child process;                       *)
(*   - the mcpControl process registry (src/src/utils/mcpControl.ts);      *)
(*   - MCPLensWebviewProvider (src/src/providers/mcpWebviewProvider.ts).   *)
(*                                                                         *)
(* JavaScript runs every event handler to completion and then drains the   *)
(* promise continuations it made runnable before the next event is taken.  *)
(* An action of this model is therefore one event (a public call, a chunk  *)
(* on stdout, a child event, a timer) followed by Drain: the handler and   *)
(* every continuation it triggers, in queue order.  Handlers are written   *)
(* as operators from a world record w to a world record.                   *)
(***************************************************************************)
EXTENDS Integers, Sequences, FiniteSets, TLC

VARIABLES
    clients,      \* the MCPClient objects constructed so far, in order
    procs,        \* the child processes spawned so far, in order (pid = index)
    tracing,      \* whether handleResponse invocations are logged
    dispatched,   \* the log of frames handed to handleResponse (when tracing)
    fed,          \* frame reader harness: the text handleStdout has consumed
    nchunks,      \* frame reader harness: in how many chunks it arrived
    last,         \* the event handled last: which, on what, with what input
    runningProcesses, \* mcpControl: server name -> pid of its process, 0 for none
    restarts,     \* mcpControl: names whose restart waits out the settling delay
    mcpClients,   \* provider: server name -> index of its cached client, 0 for none
    items,        \* provider: the MCPItem objects made by mcpFileToItems, in order
    globalMCPServers,     \* provider: the items of the global list, by index
    workspaceMCPServers,  \* provider: the items of the workspace list, by index
    tasks,        \* provider: the async operations in flight, each at its await
    config,       \* the server names of the two configuration files
    view,         \* provider: _view is "none", or a view "visible" or "hidden"
    posted        \* the last 'update' message posted to the webview

---------------------------------------------------------------------------
(* Bounds of the model.                                                    *)

MaxReq == 2        \* requests issued on one connection
MaxProc == 1       \* processes spawned
MaxStream == 6     \* characters of child output in the frame reader harness
MaxBuffer == 1     \* characters carried over between chunks on a connection
MaxRegProc == 3    \* processes spawned through the mcpControl registry
MaxClients == 2    \* MCPClient objects constructed by the provider
MaxItems == 2      \* MCPItem objects made by the provider's loads
MaxTasks == 2      \* provider operations in flight at once

---------------------------------------------------------------------------
(* Text on the wire.  A text is a sequence of characters.  The message     *)
(* texts of the model stand for JSON-RPC envelopes:                        *)
(*   {}     an object without an id               (a notification)         *)
(*   {k}    {"jsonrpc":"2.0","id":k,"result":..}  (a response)             *)
(*   {ke}   {"jsonrpc":"2.0","id":k,"error":..}   (an error response)      *)
(*   {kq}   {"jsonrpc":"2.0","id":k,"method":..}  (a request of the server)*)
(*   {s}    {"jsonrpc":"2.0","id":"..","result":..}  (an id that is a      *)
(*          string, not a number)                                          *)
(* JSON whitespace may stand between the tokens; anything else is not JSON.*)

NL == "\n"
SP == " "
Digits == {"1", "2", "3", "4"}
DigitVal(d) == CASE d = "1" -> 1 [] d = "2" -> 2 [] d = "3" -> 3 [] d = "4" -> 4
DigitOf(k) == CASE k = 1 -> "1" [] k = 2 -> "2" [] k = 3 -> "3" [] k = 4 -> "4"

\* the parsed object: whether it has an id that is a number, an error
\* member, a result member
NoParse == [ok |-> FALSE, hasId |-> FALSE, id |-> 0, error |-> FALSE, result |-> FALSE]
Frame(h, k, e) == [ok |-> TRUE, hasId |-> h, id |-> k, error |-> e, result |-> h /\ ~e]
ServerRequest(k) == [ok |-> TRUE, hasId |-> TRUE, id |-> k, error |-> FALSE, result |-> FALSE]

RECURSIVE Strip(_)
Strip(t) ==
    IF t = <<>> THEN <<>>
    ELSE IF Head(t) \in {SP, NL} THEN Strip(Tail(t))
    ELSE <<Head(t)>> \o Strip(Tail(t))

\* String.prototype.trim() applied to a line, as a truth value: is anything left
TrimNonEmpty(line) == \E i \in 1..Len(line) : line[i] \notin {SP, NL}

\* String.prototype.split('\n'): the pieces between terminators, at least one
RECURSIVE SplitFrom(_, _)
SplitFrom(acc, t) ==
    IF t = <<>> THEN <<acc>>
    ELSE IF Head(t) = NL THEN <<acc>> \o SplitFrom(<<>>, Tail(t))
    ELSE SplitFrom(Append(acc, Head(t)), Tail(t))

Split(t) == SplitFrom(<<>>, t)

\* JSON.parse(line) as JsonRpcResponse
JSONparse(line) ==
    LET t == Strip(line) IN
    IF t = <<"{", "}">> \/ t = <<"{", "s", "}">> THEN Frame(FALSE, 0, FALSE)
    ELSE IF Len(t) = 3 /\ t[1] = "{" /\ t[2] \in Digits /\ t[3] = "}"
         THEN Frame(TRUE, DigitVal(t[2]), FALSE)
    ELSE IF Len(t) = 4 /\ t[1] = "{" /\ t[2] \in Digits /\ t[3] = "e" /\ t[4] = "}"
         THEN Frame(TRUE, DigitVal(t[2]), TRUE)
    ELSE IF Len(t) = 4 /\ t[1] = "{" /\ t[2] \in Digits /\ t[3] = "q" /\ t[4] = "}"
         THEN ServerRequest(DigitVal(t[2]))
    ELSE NoParse

\* JSON.stringify of a response envelope
ResponseText(k, e) == IF e THEN <<"{", DigitOf(k), "e", "}">> ELSE <<"{", DigitOf(k), "}">>

\* a request that the server sends to the client
RequestText(k) == <<"{", DigitOf(k), "q", "}">>

---------------------------------------------------------------------------
(* The world: what the handlers read and write.  queue holds the promise   *)
(* continuations made runnable by the running handler; it is empty between *)
(* events.                                                                 *)

Names == {"a", "b"}

Cur ==
    [clients |-> clients, procs |-> procs, tracing |-> tracing,
     dispatched |-> dispatched, runningProcesses |-> runningProcesses,
     mcpClients |-> mcpClients, items |-> items,
     globalMCPServers |-> globalMCPServers,
     workspaceMCPServers |-> workspaceMCPServers,
     tasks |-> tasks, config |-> config, view |-> view, posted |-> posted,
     spawned |-> TRUE, queue |-> <<>>]

\* no message was posted yet; at is the number of processes spawned when a
\* message was posted
NoSnapshot == [global |-> <<>>, local |-> <<>>, at |-> 0]

\* the world before anything was constructed
World0 ==
    [clients |-> <<>>, procs |-> <<>>, tracing |-> FALSE, dispatched |-> <<>>,
     runningProcesses |-> [n \in Names |-> 0],
     mcpClients |-> [n \in Names |-> 0], items |-> <<>>,
     globalMCPServers |-> <<>>, workspaceMCPServers |-> <<>>,
     tasks |-> <<>>, config |-> [global |-> <<>>, workspace |-> <<>>, disabled |-> {}],
     view |-> "none", posted |-> NoSnapshot,
     spawned |-> TRUE, queue |-> <<>>]

\* new MCPClient(mcp, outputChannel): the fields of the object (mcp and
\* isGlobal are the name and the list of its MCPItem), then the promise of
\* each sendRequest call (calls, indexed by request id) and the setTimeout
\* timers still armed
NewClient(name, isGlobal) ==
    [mcp |-> name, isGlobal |-> isGlobal, process |-> 0, requestId |-> 0,
     pendingRequests |-> {}, buffer |-> <<>>, calls |-> <<>>, timers |-> {},
     refusedTools |-> "none"]

\* spawn(command, args, ...): a ChildProcess.  state is "alive", "nospawn"
\* (the spawn failed and the 'error' event is yet to be emitted), "failed"
\* or "exited"; start is the promise of the start() call that spawned it
NewProcess(c, name, spawned) ==
    [client |-> c, mcp |-> name, state |-> IF spawned THEN "alive" ELSE "nospawn",
     killed |-> FALSE, signals |-> 0, stdin |-> <<>>, start |-> "pending"]

\* stdin.write(JSON.stringify(message) + '\n')
StdinWrite(w, p, method, id) ==
    [w EXCEPT !.procs[p].stdin = Append(@, [method |-> method, id |-> id])]

\* resolve() / reject() of the promise returned by start(): a promise settles
\* once; the continuation of whoever awaits it is queued
SettleStart(w, p, outcome) ==
    IF w.procs[p].start = "pending"
    THEN [w EXCEPT !.procs[p].start = outcome,
                   !.queue = Append(@, [kind |-> "started", p |-> p])]
    ELSE w

\* pending.resolve(response) / reject(error) of one sendRequest promise: a
\* promise settles once; its continuation is queued
SettleCall(w, c, id, outcome, reply, reason) ==
    LET call == w.clients[c].calls[id] IN
    IF call.state = "pending"
    THEN [w EXCEPT !.clients[c].calls[id] =
                       [call EXCEPT !.state = outcome, !.reply = reply,
                                    !.reason = reason, !.settles = @ + 1],
                   !.queue = Append(@, [kind |-> "call", c |-> c, id |-> id])]
    ELSE [w EXCEPT !.clients[c].calls[id].settles = @ + 1]

\* cleanup that forgets the requests and the buffer but keeps the process
Cleanup_KeepProcess(w, c) ==
    [w EXCEPT !.clients[c].pendingRequests = {},
              !.clients[c].buffer = <<>>]

\* cleanup that also starts the id counter again from 0
Cleanup_ResetCounter(w, c) ==
    [w EXCEPT !.clients[c].pendingRequests = {},
              !.clients[c].buffer = <<>>,
              !.clients[c].process = 0,
              !.clients[c].requestId = 0]

\* MCPClient.cleanup
Cleanup(w, c) ==
    [w EXCEPT !.clients[c].pendingRequests = {},
              !.clients[c].buffer = <<>>,
              !.clients[c].process = 0]

\* handleResponse settling the oldest pending request, whatever id the frame carries
HandleResponse_Oldest(w, c, response) ==
    LET pend == w.clients[c].pendingRequests IN
    IF response.hasId /\ pend # {}
    THEN LET id == CHOOSE i \in pend : \A j \in pend : i <= j IN
         SettleCall([w EXCEPT !.clients[c].pendingRequests = @ \ {id}],
                    c, id, "resolved", response, "")
    ELSE w

\* handleResponse giving a frame that matches no pending entry to the oldest
\* pending request
HandleResponse_Unmatched(w, c, response) ==
    LET pend == w.clients[c].pendingRequests IN
    IF response.hasId /\ response.id \in pend
    THEN SettleCall([w EXCEPT !.clients[c].pendingRequests = @ \ {response.id}],
                    c, response.id, "resolved", response, "")
    ELSE IF pend # {}
         THEN LET id == CHOOSE i \in pend : \A j \in pend : i <= j IN
              SettleCall([w EXCEPT !.clients[c].pendingRequests = @ \ {id}],
                         c, id, "resolved", response, "")
    ELSE w

\* handleResponse resolving the request without deleting its pending entry
HandleResponse_KeepEntry(w, c, response) ==
    IF response.hasId /\ response.id \in w.clients[c].pendingRequests
    THEN SettleCall(w, c, response.id, "resolved", response, "")
    ELSE w

\* MCPClient.handleResponse
HandleResponse(w, c, response) ==
    LET w1 == IF w.tracing THEN [w EXCEPT !.dispatched = Append(@, response)] ELSE w IN
    IF response.hasId /\ response.id \in w1.clients[c].pendingRequests
    THEN SettleCall([w1 EXCEPT !.clients[c].pendingRequests = @ \ {response.id}],
                    c, response.id, "resolved", response, "")
    ELSE w1

\* the for loop inside the try: the first line that is not JSON ends the loop
RECURSIVE ProcessLines_StopAtBadLine(_, _, _)
ProcessLines_StopAtBadLine(w, c, lines) ==
    IF lines = <<>> THEN w
    ELSE LET line == Head(lines)
             response == JSONparse(line)
         IN IF ~TrimNonEmpty(line) THEN ProcessLines_StopAtBadLine(w, c, Tail(lines))
            ELSE IF response.ok
                 THEN ProcessLines_StopAtBadLine(HandleResponse(w, c, response), c,
                                                 Tail(lines))
            ELSE w

\* the for loop of MCPClient.handleStdout over the complete lines
RECURSIVE ProcessLines(_, _, _)
ProcessLines(w, c, lines) ==
    IF lines = <<>> THEN w
    ELSE LET line == Head(lines)
             response == JSONparse(line)
             w1 == IF TrimNonEmpty(line) /\ response.ok
                   THEN HandleResponse(w, c, response)
                   ELSE w
         IN ProcessLines(w1, c, Tail(lines))

\* the buffer reset after every chunk instead of keeping the last piece
CarryOver_Dropped(lines) == <<>>

\* the first piece kept instead of the last
CarryOver_First(lines) == lines[1]

\* lines.pop() || ''
CarryOver(lines) == lines[Len(lines)]

\* handleStdout of a connection table shared by the connections of one server
\* name: the chunk is handled by the newest connection of the name
HandleStdout_SharedByName(w, c, data) ==
    LET same == {d \in 1..Len(w.clients) : w.clients[d].mcp = w.clients[c].mcp}
        d == CHOOSE x \in same : \A y \in same : y <= x
        lines == Split(w.clients[d].buffer \o data)
        w1 == [w EXCEPT !.clients[d].buffer = lines[Len(lines)]]
    IN ProcessLines(w1, d, SubSeq(lines, 1, Len(lines) - 1))

\* MCPClient.handleStdout
HandleStdout(w, c, data) ==
    LET lines == Split(w.clients[c].buffer \o data)
        w1 == [w EXCEPT !.clients[c].buffer = CarryOver(lines)]
    IN ProcessLines(w1, c, SubSeq(lines, 1, Len(lines) - 1))

\* MCPClient.sendRequest; start is the pid whose start() call issued the
\* request (0 for a request from listTools)
SendRequest(w, c, method, start) ==
    LET cl == w.clients[c] IN
    IF cl.process = 0
    THEN [w EXCEPT !.queue = Append(@, [kind |-> "refused", c |-> c,
                                        method |-> method, start |-> start])]
    ELSE LET id == cl.requestId + 1
             call == [method |-> method, state |-> "pending", reply |-> NoParse,
                      reason |-> "", pid |-> cl.process, start |-> start,
                      settles |-> 0, result |-> "none"]
             w1 == [w EXCEPT !.clients[c].requestId = id,
                             !.clients[c].pendingRequests = @ \cup {id},
                             !.clients[c].calls = Append(@, call),
                             !.clients[c].timers = @ \cup {id}]
         IN StdinWrite(w1, cl.process, method, id)

\* MCPClient.sendNotification, as awaited by initialize() for start() of pid
\* start: it throws when there is no process, and start() fails
SendNotification(w, c, start) ==
    IF w.clients[c].process = 0
    THEN SettleStart(w, start, "rejected")
    ELSE SettleStart(StdinWrite(w, w.clients[c].process, "initialized", 0),
                     start, "resolved")

\* MCPClient.initialize after its await of the initialize request
InitializeCont(w, c, id) ==
    LET call == w.clients[c].calls[id] IN
    IF call.state = "resolved" /\ ~call.reply.error
    THEN SendNotification(w, c, call.start)
    ELSE SettleStart(w, call.start, "rejected")

\* listTools without its catch: a rejected request fails the call
ListToolsCont_Propagate(w, c, id) ==
    LET call == w.clients[c].calls[id]
        result == IF call.state # "resolved" THEN "failed"
                  ELSE IF call.reply.error THEN "empty" ELSE "tools"
    IN [w EXCEPT !.clients[c].calls[id].result = result,
                 !.queue = Append(@, [kind |-> "listed", c |-> c, id |-> id,
                                      result |-> result])]

\* MCPClient.listTools after its await of the tools/list request: the tools
\* of a response without error, [] otherwise; the promise of listTools()
\* resolves and the continuation of whoever awaits it is queued
ListToolsCont(w, c, id) ==
    LET call == w.clients[c].calls[id]
        result == IF call.state = "resolved" /\ ~call.reply.error /\ call.reply.result
                  THEN "tools" ELSE "empty"
    IN [w EXCEPT !.clients[c].calls[id].result = result,
                 !.queue = Append(@, [kind |-> "listed", c |-> c, id |-> id,
                                      result |-> result])]

\* MCPClient.listTools when sendRequest rejected with 'Process not started'
ListToolsRefused(w, c) ==
    [w EXCEPT !.clients[c].refusedTools = "empty",
              !.queue = Append(@, [kind |-> "listed", c |-> c, id |-> 0,
                                   result |-> "empty"])]

\* MCPClient.start: spawn, attach the handlers, initialize()
Start(w, c, spawned) ==
    LET p == Len(w.procs) + 1
        w1 == [w EXCEPT !.procs = Append(@, NewProcess(c, w.clients[c].mcp, spawned)),
                        !.clients[c].process = p]
    IN SendRequest(w1, c, "initialize", p)

\* MCPClient.listTools
ListTools(w, c) == SendRequest(w, c, "tools/list", 0)

\* ChildProcess.kill(): the signal is sent to a process that runs
Kill(w, p) ==
    IF w.procs[p].state = "alive"
    THEN [w EXCEPT !.procs[p].killed = TRUE, !.procs[p].signals = @ + 1]
    ELSE w

\* MCPClient.stop
Stop(w, c) ==
    IF w.clients[c].process # 0
    THEN Cleanup(Kill(w, w.clients[c].process), c)
    ELSE w

\* the timeout callback rejecting without deleting the pending entry
OnTimeout_KeepEntry(w, c, id) ==
    LET w1 == [w EXCEPT !.clients[c].timers = @ \ {id}] IN
    IF id \in w1.clients[c].pendingRequests
    THEN SettleCall(w1, c, id, "rejected", NoParse, "timeout")
    ELSE w1

\* the timeout callback failing the request and stopping the connection
OnTimeout_StopsConnection(w, c, id) ==
    LET w1 == [w EXCEPT !.clients[c].timers = @ \ {id}] IN
    IF id \in w1.clients[c].pendingRequests
    THEN Stop(SettleCall([w1 EXCEPT !.clients[c].pendingRequests = @ \ {id}],
                         c, id, "rejected", NoParse, "timeout"), c)
    ELSE w1

\* the setTimeout callback of sendRequest for request id
OnTimeout(w, c, id) ==
    LET w1 == [w EXCEPT !.clients[c].timers = @ \ {id}] IN
    IF id \in w1.clients[c].pendingRequests
    THEN SettleCall([w1 EXCEPT !.clients[c].pendingRequests = @ \ {id}],
                    c, id, "rejected", NoParse, "timeout")
    ELSE w1

\* an 'exit' handler that starts the server again
OnExit_Restart(w, p) ==
    Start(Cleanup([w EXCEPT !.procs[p].state = "exited"], w.procs[p].client),
          w.procs[p].client, TRUE)

\* the 'exit' handler installed by start()
OnExit(w, p) == Cleanup([w EXCEPT !.procs[p].state = "exited"], w.procs[p].client)

\* the 'error' handler installed by start()
OnError(w, p) == SettleStart([w EXCEPT !.procs[p].state = "failed"], p, "rejected")

\* MCPClient.isRunning
IsRunning(w, c) ==
    w.clients[c].process # 0 /\ ~w.procs[w.clients[c].process].killed

---------------------------------------------------------------------------
(* MCPLensWebviewProvider.  An async operation that is suspended at an     *)
(* await is a task: kind is "load", "start" or "restart"; pc names the     *)
(* await ("readGlobal", "readWorkspace": a configuration file is being     *)
(* read; "start": client.start(); "tools": client.listTools()); item and   *)
(* client are the arguments of the running fetchToolsForMCP, rest and      *)
(* phase the position of enrichMCPData in the lists.                       *)

NewTask(kind, pc) ==
    [kind |-> kind, pc |-> pc, phase |-> "", rest |-> <<>>, item |-> 0,
     client |-> 0, await |-> 0]

\* mcpFileToItems: one new item per configured server; disabled is
\* config.disabled
NewItem(name, isGlobal, disabled) ==
    [name |-> name, isGlobal |-> isGlobal, disabled |-> disabled,
     status |-> IF disabled THEN "stopped" ELSE "unknown", tools |-> "unset"]

\* the operation returns: its task is over
Finish(w, t) ==
    [w EXCEPT !.tasks = SubSeq(@, 1, t - 1) \o SubSeq(@, t + 1, Len(@))]

\* MCPLensWebviewProvider.fetchToolsForMCP up to its await of client.start()
FetchToolsForMCP(w, t, item, rest, phase) ==
    LET c == Len(w.clients) + 1
        w1 == [w EXCEPT !.clients = Append(@, NewClient(w.items[item].name, w.items[item].isGlobal)),
                        !.tasks[t] = [@ EXCEPT !.pc = "start", !.item = item,
                                               !.client = c, !.rest = rest,
                                               !.phase = phase,
                                               !.await = Len(w.procs) + 1]]
    IN Start(w1, c, w.spawned)

\* the lists as the 'update' message carries them
Snapshot(w) ==
    [global |-> [i \in 1..Len(w.globalMCPServers) |-> w.items[w.globalMCPServers[i]]],
     local |-> [i \in 1..Len(w.workspaceMCPServers) |-> w.items[w.workspaceMCPServers[i]]],
     at |-> Len(w.procs)]

\* MCPLensWebviewProvider.updateWebview
UpdateWebview(w) ==
    IF w.view = "visible" THEN [w EXCEPT !.posted = Snapshot(w)] ELSE w

\* MCPLensWebviewProvider.enrichMCPData at the head of its loop, and
\* fetchToolsInBackground between its two passes; startMCP after its fetch
NextFetch(w, t) ==
    LET task == w.tasks[t] IN
    IF task.kind # "load" THEN Finish(w, t)
    ELSE IF task.rest # <<>>
         THEN FetchToolsForMCP(w, t, Head(task.rest), Tail(task.rest), task.phase)
    ELSE IF task.phase = "global" /\ w.workspaceMCPServers # <<>>
         THEN FetchToolsForMCP(w, t, Head(w.workspaceMCPServers),
                               Tail(w.workspaceMCPServers), "workspace")
    ELSE Finish(w, t)

\* fetchToolsForMCP returns to enrichMCPData or startMCP: updateWebview, then
\* the next server or the end of the operation
AfterFetch(w, t) == NextFetch(UpdateWebview(w), t)

\* fetchToolsForMCP after client.start() settled
FetchAfterStart(w, t) ==
    LET task == w.tasks[t] IN
    IF w.procs[task.await].start = "resolved"
    THEN \* client.listTools()
         LET w1 == ListTools(w, task.client) IN
         [w1 EXCEPT !.tasks[t].pc = "tools",
                    !.tasks[t].await = IF w.clients[task.client].process = 0
                                       THEN 0 ELSE w1.clients[task.client].requestId]
    ELSE \* catch: status error, no tools, client.stop()
         AfterFetch(Stop([w EXCEPT !.items[task.item].status = "error",
                                   !.items[task.item].tools = "empty"],
                         task.client), t)

\* fetchToolsForMCP after client.listTools() resolved
FetchAfterTools(w, t, result) ==
    LET task == w.tasks[t] IN
    AfterFetch([w EXCEPT !.items[task.item].tools = result,
                         !.items[task.item].status = "running",
                         !.mcpClients[w.items[task.item].name] = task.client], t)

\* MCPLensWebviewProvider.getMCP: the index of the item found, 0 for none
GetMCP(w, name, isGlobal) ==
    LET servers == IF isGlobal THEN w.globalMCPServers ELSE w.workspaceMCPServers
        found == {i \in 1..Len(servers) : w.items[servers[i]].name = name}
    IN IF found = {} THEN 0
       ELSE servers[CHOOSE i \in found : \A j \in found : i <= j]

RECURSIVE StopClients(_, _)
StopClients(w, cs) ==
    IF cs = {} THEN w
    ELSE LET c == CHOOSE x \in cs : TRUE IN StopClients(Stop(w, c), cs \ {c})

\* for (const client of this.mcpClients.values()) await client.stop();
\* this.mcpClients.clear()
StopAllClients(w) ==
    [StopClients(w, {w.mcpClients[n] : n \in Names} \ {0})
        EXCEPT !.mcpClients = [n \in Names |-> 0]]

\* MCPLensWebviewProvider.loadMCPs up to its await of the global file
LoadMCPs(w) ==
    [StopAllClients(w) EXCEPT !.tasks = Append(@, NewTask("load", "readGlobal"))]

\* the items of one configuration file, appended to the items made so far
ItemsOf(w, names, isGlobal) ==
    w.items \o [i \in 1..Len(names) |->
                    NewItem(names[i], isGlobal, names[i] \in w.config.disabled)]

\* loadMCPs after readMCPFile resolved: the global list, then the workspace
\* list, updateWebview and fetchToolsInBackground
ReadDone(w, t) ==
    IF w.tasks[t].pc = "readGlobal"
    THEN [w EXCEPT !.items = ItemsOf(w, w.config.global, TRUE),
                   !.globalMCPServers =
                       [i \in 1..Len(w.config.global) |-> Len(w.items) + i],
                   !.tasks[t].pc = "readWorkspace"]
    ELSE LET w1 == [w EXCEPT !.items = ItemsOf(w, w.config.workspace, FALSE),
                             !.workspaceMCPServers =
                                 [i \in 1..Len(w.config.workspace) |-> Len(w.items) + i],
                             !.tasks[t].phase = "global",
                             !.tasks[t].rest = w.globalMCPServers]
         IN NextFetch(UpdateWebview(w1), t)

\* MCPLensWebviewProvider.startMCP up to its await in fetchToolsForMCP
StartMCP(w, name, isGlobal, kind) ==
    LET item == GetMCP(w, name, isGlobal) IN
    IF item = 0 THEN w
    ELSE FetchToolsForMCP([w EXCEPT !.tasks = Append(@, NewTask(kind, "start"))],
                          Len(w.tasks) + 1, item, <<>>, "")

\* MCPLensWebviewProvider.stopMCP
StopMCP(w, name, isGlobal) ==
    LET item == GetMCP(w, name, isGlobal)
        client == w.mcpClients[name]
        w1 == IF client # 0
              THEN [Stop(w, client) EXCEPT !.mcpClients[name] = 0]
              ELSE w
    IN IF item = 0 THEN w
       ELSE UpdateWebview([w1 EXCEPT !.items[item].status = "stopped",
                                     !.items[item].tools = "empty"])

\* MCPLensWebviewProvider.restartMCP
RestartMCP(w, name, isGlobal) ==
    IF GetMCP(w, name, isGlobal) = 0 THEN w
    ELSE StartMCP(StopMCP(w, name, isGlobal), name, isGlobal, "restart")

\* the tasks suspended at an await of the promise a continuation is for
Awaiting(w, pc, c, await) ==
    {t \in 1..Len(w.tasks) :
        w.tasks[t].pc = pc /\ w.tasks[t].client = c /\ w.tasks[t].await = await}

---------------------------------------------------------------------------
(* Promise continuations.                                                  *)

\* one continuation
RunCont(w, item) ==
    CASE item.kind = "call" ->
            IF w.clients[item.c].calls[item.id].method = "initialize"
            THEN InitializeCont(w, item.c, item.id)
            ELSE ListToolsCont(w, item.c, item.id)
      [] item.kind = "refused" ->
            \* sendRequest rejected with 'Process not started'
            IF item.method = "initialize"
            THEN SettleStart(w, item.start, "rejected")
            ELSE ListToolsRefused(w, item.c)
      [] item.kind = "started" ->
            LET ts == Awaiting(w, "start", w.procs[item.p].client, item.p) IN
            IF ts = {} THEN w ELSE FetchAfterStart(w, CHOOSE t \in ts : TRUE)
      [] item.kind = "listed" ->
            LET ts == Awaiting(w, "tools", item.c, item.id) IN
            IF ts = {} THEN w ELSE FetchAfterTools(w, CHOOSE t \in ts : TRUE, item.result)

RECURSIVE Drain(_)
Drain(w) ==
    IF w.queue = <<>> THEN w
    ELSE Drain(RunCont([w EXCEPT !.queue = Tail(@)], Head(w.queue)))

---------------------------------------------------------------------------
(* Events.  last names the event handled last and the pending map it found.*)

Event(op, c, p, id, data, pending) ==
    [op |-> op, c |-> c, p |-> p, id |-> id, data |-> data, pending |-> pending]

NoEvent == Event("none", 0, 0, 0, <<>>, {})

Apply(r, ev) ==
    /\ clients' = r.clients
    /\ procs' = r.procs
    /\ tracing' = r.tracing
    /\ dispatched' = r.dispatched
    /\ runningProcesses' = r.runningProcesses
    /\ mcpClients' = r.mcpClients
    /\ items' = r.items
    /\ globalMCPServers' = r.globalMCPServers
    /\ workspaceMCPServers' = r.workspaceMCPServers
    /\ tasks' = r.tasks
    /\ config' = r.config
    /\ view' = r.view
    /\ posted' = r.posted
    /\ last' = ev

vars == <<clients, procs, tracing, dispatched, fed, nchunks, last,
          runningProcesses, restarts, mcpClients, items, globalMCPServers,
          workspaceMCPServers, tasks, config, view, posted>>

\* the provider's variables as they are before any load
NoProvider ==
    /\ mcpClients = World0.mcpClients
    /\ items = <<>>
    /\ globalMCPServers = <<>>
    /\ workspaceMCPServers = <<>>
    /\ tasks = <<>>
    /\ view = "none"
    /\ posted = NoSnapshot

---------------------------------------------------------------------------
(* One MCPClient driven through its public operations by any caller, with  *)
(* a child that may answer anything, in any order, or exit.                *)

\* what the child writes in one chunk: a response or an error response to
\* any id, a notification, a line that is not JSON, the start of a line
ServerChunks ==
    {Append(ResponseText(k, e), NL) : k \in 1..MaxReq, e \in BOOLEAN}
        \cup {<<"{", "}", NL>>, <<"}", NL>>, <<"{">>}

\* the id carried by the first line of a text, 0 when it carries none
ChunkId(text) == JSONparse(Split(text)[1]).id

CallStart ==
    \E spawned \in BOOLEAN :
        /\ Len(procs) < MaxProc
        /\ clients[1].requestId < MaxReq
        /\ Apply(Drain(Start(Cur, 1, spawned)),
                 Event("start", 1, Len(procs) + 1, 0, <<>>, clients[1].pendingRequests))

CallListTools ==
    /\ clients[1].process = 0 \/ clients[1].requestId < MaxReq
    /\ Apply(Drain(ListTools(Cur, 1)),
             Event("listTools", 1, clients[1].process, 0, <<>>, clients[1].pendingRequests))

CallStop ==
    Apply(Drain(Stop(Cur, 1)),
          Event("stop", 1, clients[1].process, 0, <<>>, clients[1].pendingRequests))

\* a 'data' event of the stdout of process p
ChildOutput ==
    \E p \in 1..Len(procs), data \in ServerChunks :
        LET c == procs[p].client IN
        /\ procs[p].state = "alive"
        /\ Len(clients[c].buffer) + Len(data) <= MaxBuffer \/ data[Len(data)] = NL
        /\ Apply(Drain(HandleStdout(Cur, c, data)),
                 Event("output", c, p, ChunkId(clients[c].buffer \o data), <<>>,
                       clients[c].pendingRequests))

\* the 'exit' event of process p
ChildExit ==
    \E p \in 1..Len(procs) :
        /\ procs[p].state \in {"alive", "failed"}
        /\ Apply(Drain(OnExit(Cur, p)),
                 Event("exit", procs[p].client, p, 0, <<>>,
                       clients[procs[p].client].pendingRequests))

\* the 'error' event of a process that could not be spawned
ChildError ==
    \E p \in 1..Len(procs) :
        /\ procs[p].state = "nospawn"
        /\ Apply(Drain(OnError(Cur, p)),
                 Event("error", procs[p].client, p, 0, <<>>,
                       clients[procs[p].client].pendingRequests))

\* timers of equal delay fire in the order they were set
Timeout ==
    \E c \in 1..Len(clients) :
        /\ clients[c].timers # {}
        /\ LET id == CHOOSE i \in clients[c].timers : \A j \in clients[c].timers : i <= j IN
           Apply(Drain(OnTimeout(Cur, c, id)),
                 Event("timeout", c, 0, id, <<>>, clients[c].pendingRequests))

Init ==
    /\ clients = <<NewClient("a", TRUE)>>
    /\ procs = <<>>
    /\ tracing = FALSE
    /\ dispatched = <<>>
    /\ fed = <<>>
    /\ nchunks = 0
    /\ last = NoEvent
    /\ runningProcesses = World0.runningProcesses
    /\ restarts = {}
    /\ NoProvider
    /\ config = World0.config

Next ==
    \/ CallStart /\ UNCHANGED <<fed, nchunks, restarts>>
    \/ CallListTools /\ UNCHANGED <<fed, nchunks, restarts>>
    \/ CallStop /\ UNCHANGED <<fed, nchunks, restarts>>
    \/ ChildOutput /\ UNCHANGED <<fed, nchunks, restarts>>
    \/ ChildExit /\ UNCHANGED <<fed, nchunks, restarts>>
    \/ ChildError /\ UNCHANGED <<fed, nchunks, restarts>>
    \/ Timeout /\ UNCHANGED <<fed, nchunks, restarts>>

Spec == Init /\ [][Next]_vars

---------------------------------------------------------------------------
(* One MCPClient and a server that speaks both ways: besides responses it  *)
(* sends requests of its own, which carry ids from the server's counter.   *)

\* what such a server writes in one chunk: a response or an error response
\* to any id, a request with any id, a notification, a response whose id is
\* a string
PeerChunks ==
    {Append(ResponseText(k, e), NL) : k \in 1..MaxReq, e \in BOOLEAN}
        \cup {Append(RequestText(k), NL) : k \in 1..MaxReq}
        \cup {<<"{", "}", NL>>, <<"{", "s", "}", NL>>}

PeerOutput ==
    \E p \in 1..Len(procs), data \in PeerChunks :
        LET c == procs[p].client IN
        /\ procs[p].state = "alive"
        /\ Apply(Drain(HandleStdout(Cur, c, data)),
                 Event("output", c, p, ChunkId(data), <<>>, clients[c].pendingRequests))

PeerNext ==
    \/ CallStart /\ UNCHANGED <<fed, nchunks, restarts>>
    \/ CallListTools /\ UNCHANGED <<fed, nchunks, restarts>>
    \/ CallStop /\ UNCHANGED <<fed, nchunks, restarts>>
    \/ PeerOutput /\ UNCHANGED <<fed, nchunks, restarts>>
    \/ Timeout /\ UNCHANGED <<fed, nchunks, restarts>>

SpecPeer == Init /\ [][PeerNext]_vars

---------------------------------------------------------------------------
(* The frame reader: a connection whose handshake and one tools/list call  *)
(* are in flight receives any text at all, cut into chunks anywhere.       *)

FrameChars == {"{", "}", "1", SP, NL}

Texts(n) == UNION {[1..k -> FrameChars] : k \in 0..n}

FrameWorld ==
    LET w0 == [World0 EXCEPT !.clients = <<NewClient("a", TRUE)>>, !.tracing = TRUE]
    IN Drain(ListTools(Drain(Start(w0, 1, TRUE)), 1))

FrameInit ==
    /\ clients = FrameWorld.clients
    /\ procs = FrameWorld.procs
    /\ tracing = TRUE
    /\ dispatched = <<>>
    /\ fed = <<>>
    /\ nchunks = 0
    /\ last = NoEvent
    /\ runningProcesses = World0.runningProcesses
    /\ restarts = {}
    /\ NoProvider
    /\ config = World0.config

Feed ==
    \E data \in Texts(MaxStream - Len(fed)) :
        /\ data # <<>>
        /\ Apply(Drain(HandleStdout(Cur, 1, data)),
                 Event("output", 1, 1, 0, data, clients[1].pendingRequests))
        /\ fed' = fed \o data
        /\ nchunks' = nchunks + 1
        /\ UNCHANGED restarts

FrameNext == Feed

SpecFrame == FrameInit /\ [][FrameNext]_vars

---------------------------------------------------------------------------
(* The frame reader of a connection that may be stopped: stop() signals the *)
(* child and cleans up, and the child may go on writing until it ends; the *)
(* 'data' handler stays attached.  since is the text received since the    *)
(* last cleanup.                                                           *)

LineChars == {"{", "}", "1", NL}

LineEvent(op, since) == [op |-> op, since |-> since]

LineFeed ==
    \E data \in UNION {[1..k -> LineChars] : k \in 1..(MaxStream - Len(fed))} :
        /\ procs[1].state = "alive"
        /\ Apply(Drain(HandleStdout(Cur, 1, data)),
                 LineEvent("output", last.since \o data))
        /\ fed' = fed \o data
        /\ nchunks' = nchunks + 1
        /\ UNCHANGED restarts

LineStop ==
    /\ clients[1].process # 0
    /\ Apply(Drain(Stop(Cur, 1)), LineEvent("stop", <<>>))
    /\ UNCHANGED <<fed, nchunks, restarts>>

LineInit ==
    /\ clients = FrameWorld.clients
    /\ procs = FrameWorld.procs
    /\ tracing = TRUE
    /\ dispatched = <<>>
    /\ fed = <<>>
    /\ nchunks = 0
    /\ last = LineEvent("none", <<>>)
    /\ runningProcesses = World0.runningProcesses
    /\ restarts = {}
    /\ NoProvider
    /\ config = World0.config

LineNext == LineFeed \/ LineStop

SpecLines == LineInit /\ [][LineNext]_vars

---------------------------------------------------------------------------
(* The mcpControl registry: runningProcesses and the functions over it.    *)
(* A process spawned here belongs to no MCPClient (client 0); its 'exit'   *)
(* and 'error' handlers delete the entry of its server name.               *)

\* startMCPServer without the "already running" check
StartMCPServer_NoCheck(w, name, spawned) ==
    LET p == Len(w.procs) + 1 IN
    [w EXCEPT !.procs = Append(@, NewProcess(0, name, spawned)),
              !.runningProcesses[name] = p]

\* startMCPServer: the world after the call
StartMCPServer(w, name, spawned) ==
    IF w.runningProcesses[name] # 0
    THEN w
    ELSE LET p == Len(w.procs) + 1 IN
         [w EXCEPT !.procs = Append(@, NewProcess(0, name, spawned)),
                   !.runningProcesses[name] = p]

\* startMCPServer: the value it returns
StartMCPServerResult(w, name) == w.runningProcesses[name] = 0

\* stopMCPServer keeping the entry of a process it could not signal
StopMCPServer_KeepOnFailure(w, name) ==
    IF w.runningProcesses[name] = 0 \/ w.procs[w.runningProcesses[name]].state # "alive"
    THEN w
    ELSE [Kill(w, w.runningProcesses[name]) EXCEPT !.runningProcesses[name] = 0]

\* stopMCPServer: the world after the call
StopMCPServer(w, name) ==
    IF w.runningProcesses[name] = 0
    THEN w
    ELSE [Kill(w, w.runningProcesses[name]) EXCEPT !.runningProcesses[name] = 0]

\* stopMCPServer: the value it returns
StopMCPServerResult(w, name) == w.runningProcesses[name] # 0

RECURSIVE KillAll(_, _)
KillAll(w, ps) ==
    IF ps = {} THEN w
    ELSE LET p == CHOOSE q \in ps : TRUE IN KillAll(Kill(w, p), ps \ {p})

\* stopAllMCPs clearing the registry without signalling
StopAllMCPs_ClearOnly(w) ==
    [w EXCEPT !.runningProcesses = [n \in Names |-> 0]]

\* stopAllMCPs
StopAllMCPs(w) ==
    [KillAll(w, {w.runningProcesses[n] : n \in Names} \ {0})
        EXCEPT !.runningProcesses = [n \in Names |-> 0]]

\* the 'exit' handler installed by startMCPServer
RegOnExit(w, p) ==
    [w EXCEPT !.procs[p].state = "exited", !.runningProcesses[w.procs[p].mcp] = 0]

\* the 'error' handler installed by startMCPServer
RegOnError(w, p) ==
    [w EXCEPT !.procs[p].state = "failed", !.runningProcesses[w.procs[p].mcp] = 0]

\* what a registry call found and returned
RegEvent(op, name, result) ==
    [op |-> op, name |-> name, before |-> runningProcesses[name], result |-> result]

RegStart ==
    \E name \in Names, spawned \in BOOLEAN :
        /\ Len(procs) < MaxRegProc
        /\ Apply(StartMCPServer(Cur, name, spawned),
                 RegEvent("startMCPServer", name, StartMCPServerResult(Cur, name)))
        /\ UNCHANGED restarts

RegStop ==
    \E name \in Names :
        /\ Apply(StopMCPServer(Cur, name),
                 RegEvent("stopMCPServer", name, StopMCPServerResult(Cur, name)))
        /\ UNCHANGED restarts

\* restartMCPServer starting the new process without the settling delay
RegRestart_NoDelay ==
    \E name \in Names, spawned \in BOOLEAN :
        /\ Len(procs) < MaxRegProc
        /\ name \notin restarts
        /\ Apply(StartMCPServer(StopMCPServer(Cur, name), name, spawned),
                 RegEvent("restartMCPServer", name, TRUE))
        /\ UNCHANGED restarts

\* restartMCPServer up to its await of the settling delay; a server that is
\* not running is started at once
RegRestart ==
    \E name \in Names, spawned \in BOOLEAN :
        /\ Len(procs) < MaxRegProc
        /\ name \notin restarts
        /\ IF runningProcesses[name] # 0
           THEN /\ Apply(StopMCPServer(Cur, name), RegEvent("restartMCPServer", name, TRUE))
                /\ restarts' = restarts \cup {name}
           ELSE /\ Apply(StartMCPServer(Cur, name, spawned),
                         RegEvent("restartMCPServer", name, StartMCPServerResult(Cur, name)))
                /\ UNCHANGED restarts

\* restartMCPServer after the settling delay
RegRestartResume ==
    \E name \in restarts, spawned \in BOOLEAN :
        /\ Len(procs) < MaxRegProc
        /\ Apply(StartMCPServer(Cur, name, spawned),
                 RegEvent("restartResume", name, StartMCPServerResult(Cur, name)))
        /\ restarts' = restarts \ {name}

RegStopAll ==
    /\ Apply(StopAllMCPs(Cur),
             [op |-> "stopAllMCPs", name |-> "",
              before |-> Cardinality({n \in Names : runningProcesses[n] # 0}),
              result |-> TRUE])
    /\ UNCHANGED restarts

RegChildExit ==
    \E p \in 1..Len(procs) :
        /\ procs[p].state \in {"alive", "failed"}
        /\ Apply(RegOnExit(Cur, p), RegEvent("exit", procs[p].mcp, TRUE))
        /\ UNCHANGED restarts

RegChildError ==
    \E p \in 1..Len(procs) :
        /\ procs[p].state = "nospawn"
        /\ Apply(RegOnError(Cur, p), RegEvent("error", procs[p].mcp, TRUE))
        /\ UNCHANGED restarts

RegInit ==
    /\ clients = <<>>
    /\ procs = <<>>
    /\ tracing = FALSE
    /\ dispatched = <<>>
    /\ fed = <<>>
    /\ nchunks = 0
    /\ last = [op |-> "none", name |-> "", before |-> 0, result |-> TRUE]
    /\ runningProcesses = World0.runningProcesses
    /\ restarts = {}
    /\ NoProvider
    /\ config = World0.config

RegNext ==
    \/ RegStart /\ UNCHANGED <<fed, nchunks>>
    \/ RegStop /\ UNCHANGED <<fed, nchunks>>
    \/ RegRestart /\ UNCHANGED <<fed, nchunks>>
    \/ RegRestartResume /\ UNCHANGED <<fed, nchunks>>
    \/ RegStopAll /\ UNCHANGED <<fed, nchunks>>
    \/ RegChildExit /\ UNCHANGED <<fed, nchunks>>
    \/ RegChildError /\ UNCHANGED <<fed, nchunks>>

SpecReg == RegInit /\ [][RegNext]_vars

---------------------------------------------------------------------------
(* Properties of one connection (Spec) and of the frame reader (SpecFrame).*)
---------------------------------------------------------------------------
(* The webview provider with its clients and their child processes: the    *)
(* operations of the provider (loadMCPs from activate, resolveWebviewView  *)
(* and the refresh command; startMCP, stopMCP, restartMCP from webview     *)
(* messages), the completion of a configuration file read, and the events  *)
(* of the child processes.  A child answers requests that are pending.     *)

Configs ==
    {[global |-> <<"a">>, workspace |-> <<>>, disabled |-> {}],
     [global |-> <<"a">>, workspace |-> <<"b">>, disabled |-> {}],
     [global |-> <<"a", "b">>, workspace |-> <<>>, disabled |-> {}]}

ProvEvent(op, name, isGlobal) ==
    [op |-> op, name |-> name, isGlobal |-> isGlobal]

Fits(r) ==
    /\ Len(r.clients) <= MaxClients
    /\ Len(r.items) <= MaxItems
    /\ Len(r.tasks) <= MaxTasks

\* the world of a step in which a spawn, if one is made, has this outcome
CurSpawning(spawned) == [Cur EXCEPT !.spawned = spawned]

ProvLoad ==
    \E r \in {Drain(LoadMCPs(Cur))} :
        /\ Fits(r)
        /\ Apply(r, ProvEvent("load", "", TRUE))

ProvReadDone ==
    \E t \in 1..Len(tasks), spawned \in BOOLEAN :
        /\ tasks[t].pc \in {"readGlobal", "readWorkspace"}
        /\ \E r \in {Drain(ReadDone(CurSpawning(spawned), t))} :
              /\ Fits(r)
              /\ Apply(r, ProvEvent("read", "", tasks[t].pc = "readGlobal"))

ProvStart ==
    \E name \in Names, isGlobal \in BOOLEAN, spawned \in BOOLEAN :
        /\ GetMCP(Cur, name, isGlobal) # 0
        /\ \E r \in {Drain(StartMCP(CurSpawning(spawned), name, isGlobal, "start"))} :
              /\ Fits(r)
              /\ Apply(r, ProvEvent("start", name, isGlobal))

ProvStop ==
    \E name \in Names, isGlobal \in BOOLEAN :
        /\ GetMCP(Cur, name, isGlobal) # 0
        /\ \E r \in {Drain(StopMCP(Cur, name, isGlobal))} :
              Apply(r, ProvEvent("stop", name, isGlobal))

ProvRestart ==
    \E name \in Names, isGlobal \in BOOLEAN, spawned \in BOOLEAN :
        /\ GetMCP(Cur, name, isGlobal) # 0
        /\ \E r \in {Drain(RestartMCP(CurSpawning(spawned), name, isGlobal))} :
              /\ Fits(r)
              /\ Apply(r, ProvEvent("restart", name, isGlobal))

\* a 'data' event of the stdout of process p: the response to a pending request
ProvChildOutput ==
    \E p \in 1..Len(procs), e \in BOOLEAN, spawned \in BOOLEAN :
        LET c == procs[p].client IN
        /\ procs[p].state = "alive"
        /\ clients[c].process = p
        /\ \E k \in clients[c].pendingRequests :
              \E r \in {Drain(HandleStdout(CurSpawning(spawned), c,
                                           Append(ResponseText(k, e), NL)))} :
                  /\ Fits(r)
                  /\ Apply(r, ProvEvent("output", procs[p].mcp, TRUE))

ProvChildExit ==
    \E p \in 1..Len(procs), spawned \in BOOLEAN :
        /\ procs[p].state \in {"alive", "failed"}
        /\ \E r \in {Drain(OnExit(CurSpawning(spawned), p))} :
              /\ Fits(r)
              /\ Apply(r, ProvEvent("exit", procs[p].mcp, TRUE))

ProvChildError ==
    \E p \in 1..Len(procs), spawned \in BOOLEAN :
        /\ procs[p].state = "nospawn"
        /\ \E r \in {Drain(OnError(CurSpawning(spawned), p))} :
              /\ Fits(r)
              /\ Apply(r, ProvEvent("error", procs[p].mcp, TRUE))

\* the timer of a request that is pending; the timer of a request that is
\* settled fires without effect and is not followed
ProvTimeout ==
    \E c \in 1..Len(clients), spawned \in BOOLEAN :
        \E id \in clients[c].timers \cap clients[c].pendingRequests :
            /\ \A j \in clients[c].timers \cap clients[c].pendingRequests : id <= j
            /\ \E r \in {Drain(OnTimeout(CurSpawning(spawned), c, id))} :
                  /\ Fits(r)
                  /\ Apply(r, ProvEvent("timeout", clients[c].mcp, TRUE))

ProvInit ==
    /\ clients = <<>>
    /\ procs = <<>>
    /\ tracing = FALSE
    /\ dispatched = <<>>
    /\ fed = <<>>
    /\ nchunks = 0
    /\ last = ProvEvent("none", "", TRUE)
    /\ runningProcesses = World0.runningProcesses
    /\ restarts = {}
    /\ NoProvider
    /\ config \in Configs

ProvNext ==
    \/ ProvLoad /\ UNCHANGED <<fed, nchunks, restarts>>
    \/ ProvReadDone /\ UNCHANGED <<fed, nchunks, restarts>>
    \/ ProvStart /\ UNCHANGED <<fed, nchunks, restarts>>
    \/ ProvStop /\ UNCHANGED <<fed, nchunks, restarts>>
    \/ ProvRestart /\ UNCHANGED <<fed, nchunks, restarts>>
    \/ ProvChildOutput /\ UNCHANGED <<fed, nchunks, restarts>>
    \/ ProvChildExit /\ UNCHANGED <<fed, nchunks, restarts>>
    \/ ProvChildError /\ UNCHANGED <<fed, nchunks, restarts>>
    \/ ProvTimeout /\ UNCHANGED <<fed, nchunks, restarts>>

SpecProv == ProvInit /\ [][ProvNext]_vars

\* MCPLensWebviewProvider.resolveWebviewView
ResolveWebviewView(w) == LoadMCPs([w EXCEPT !.view = "visible"])

\* the view is revealed or hidden by the user
ProvVisibility ==
    /\ view # "none"
    /\ Apply([Cur EXCEPT !.view = IF view = "visible" THEN "hidden" ELSE "visible"],
             ProvEvent("visibility", "", TRUE))

\* the provider when the only operations requested are refreshes
RefreshNext ==
    \/ ProvLoad /\ UNCHANGED <<fed, nchunks, restarts>>
    \/ ProvReadDone /\ UNCHANGED <<fed, nchunks, restarts>>
    \/ ProvChildOutput /\ UNCHANGED <<fed, nchunks, restarts>>
    \/ ProvChildExit /\ UNCHANGED <<fed, nchunks, restarts>>
    \/ ProvChildError /\ UNCHANGED <<fed, nchunks, restarts>>
    \/ ProvTimeout /\ UNCHANGED <<fed, nchunks, restarts>>

SpecRefresh == ProvInit /\ [][RefreshNext]_vars

---------------------------------------------------------------------------
(* Refreshes over a configuration that marks a server as disabled          *)
(* ("disabled": true in its entry of the configuration file).              *)

DisabledConfigs ==
    {[global |-> <<"a">>, workspace |-> <<>>, disabled |-> {"a"}],
     [global |-> <<"a">>, workspace |-> <<"b">>, disabled |-> {"b"}],
     [global |-> <<"a", "b">>, workspace |-> <<>>, disabled |-> {"a"}],
     [global |-> <<"a", "b">>, workspace |-> <<>>, disabled |-> {"b"}]}

DisabledInit ==
    /\ clients = <<>>
    /\ procs = <<>>
    /\ tracing = FALSE
    /\ dispatched = <<>>
    /\ fed = <<>>
    /\ nchunks = 0
    /\ last = ProvEvent("none", "", TRUE)
    /\ runningProcesses = World0.runningProcesses
    /\ restarts = {}
    /\ NoProvider
    /\ config \in DisabledConfigs

SpecDisabled == DisabledInit /\ [][RefreshNext]_vars

---------------------------------------------------------------------------
(* The provider over a global and a workspace configuration that both name *)
(* a server "a".                                                           *)

SameNameConfigs ==
    {[global |-> <<"a">>, workspace |-> <<"a">>, disabled |-> {}]}

SameNameInit ==
    /\ clients = <<>>
    /\ procs = <<>>
    /\ tracing = FALSE
    /\ dispatched = <<>>
    /\ fed = <<>>
    /\ nchunks = 0
    /\ last = ProvEvent("none", "", TRUE)
    /\ runningProcesses = World0.runningProcesses
    /\ restarts = {}
    /\ NoProvider
    /\ config \in SameNameConfigs

SpecSameName == SameNameInit /\ [][ProvNext]_vars

---------------------------------------------------------------------------
(* The discovery passes of the provider with its view: loadMCPs as called  *)
(* by activate() and by the refresh command, resolveWebviewView, the view  *)
(* being hidden and revealed, and the events of the child processes.  A    *)
(* load is requested only while the items it makes fit the bounds, so that *)
(* no pass stops at a bound.                                               *)

\* the items that the loads still reading their files will make
Reserved ==
    Cardinality({t \in 1..Len(tasks) : tasks[t].pc = "readGlobal"})
        * (Len(config.global) + Len(config.workspace))
    + Cardinality({t \in 1..Len(tasks) : tasks[t].pc = "readWorkspace"})
        * Len(config.workspace)

LoadFits ==
    /\ Len(items) + Reserved + Len(config.global) + Len(config.workspace) <= MaxItems
    /\ Len(tasks) < MaxTasks

DiscLoad ==
    /\ LoadFits
    /\ \E r \in {Drain(LoadMCPs(Cur))} : Apply(r, ProvEvent("load", "", TRUE))
    /\ UNCHANGED <<fed, nchunks, restarts>>

DiscResolve ==
    /\ LoadFits
    /\ view = "none"
    /\ \E r \in {Drain(ResolveWebviewView(Cur))} :
          Apply(r, ProvEvent("resolve", "", TRUE))
    /\ UNCHANGED <<fed, nchunks, restarts>>

DiscVisibility == ProvVisibility /\ UNCHANGED <<fed, nchunks, restarts>>

DiscReadDone == ProvReadDone /\ UNCHANGED <<fed, nchunks, restarts>>

DiscChildOutput == ProvChildOutput /\ UNCHANGED <<fed, nchunks, restarts>>

DiscChildExit == ProvChildExit /\ UNCHANGED <<fed, nchunks, restarts>>

DiscChildError == ProvChildError /\ UNCHANGED <<fed, nchunks, restarts>>

DiscTimeout == ProvTimeout /\ UNCHANGED <<fed, nchunks, restarts>>

DiscNext ==
    \/ DiscLoad
    \/ DiscResolve
    \/ DiscVisibility
    \/ DiscReadDone
    \/ DiscChildOutput
    \/ DiscChildExit
    \/ DiscChildError
    \/ DiscTimeout

SpecDiscovery == ProvInit /\ [][DiscNext]_vars

---------------------------------------------------------------------------
(* Stop requests racing with discovery: the load made at activation, then  *)
(* startMCP and stopMCP messages of the view while the discovery pass and   *)
(* earlier starts are still awaiting their servers.  halted is the set of   *)
(* items whose stopMCP was handled while a fetch of the item was in flight  *)
(* and for which no startMCP was requested since.                           *)

\* a discovery pass or a startMCP that has not finished with item i
InFlight(w, i) ==
    \E t \in 1..Len(w.tasks) :
        LET task == w.tasks[t] IN
        \/ task.pc \in {"readGlobal", "readWorkspace"}
        \/ task.item = i
        \/ \E k \in 1..Len(task.rest) : task.rest[k] = i
        \/ /\ task.kind = "load"
           /\ task.phase = "global"
           /\ \E k \in 1..Len(w.workspaceMCPServers) : w.workspaceMCPServers[k] = i

RaceEvent(op, name, isGlobal, halted) ==
    [op |-> op, name |-> name, isGlobal |-> isGlobal, halted |-> halted]

RaceLoad ==
    /\ items = <<>>
    /\ tasks = <<>>
    /\ \E r \in {Drain(LoadMCPs(Cur))} :
          Apply(r, RaceEvent("load", "", TRUE, last.halted))

RaceReadDone ==
    \E t \in 1..Len(tasks), spawned \in BOOLEAN :
        /\ tasks[t].pc \in {"readGlobal", "readWorkspace"}
        /\ \E r \in {Drain(ReadDone(CurSpawning(spawned), t))} :
              /\ Fits(r)
              /\ Apply(r, RaceEvent("read", "", tasks[t].pc = "readGlobal", last.halted))

RaceStart ==
    \E name \in Names, isGlobal \in BOOLEAN, spawned \in BOOLEAN :
        /\ GetMCP(Cur, name, isGlobal) # 0
        /\ \E r \in {Drain(StartMCP(CurSpawning(spawned), name, isGlobal, "start"))} :
              /\ Fits(r)
              /\ Apply(r, RaceEvent("start", name, isGlobal,
                                    last.halted \ {GetMCP(Cur, name, isGlobal)}))

RaceStop ==
    \E name \in Names, isGlobal \in BOOLEAN :
        LET i == GetMCP(Cur, name, isGlobal) IN
        /\ i # 0
        /\ \E r \in {Drain(StopMCP(Cur, name, isGlobal))} :
              Apply(r, RaceEvent("stop", name, isGlobal,
                                 IF InFlight(Cur, i) THEN last.halted \cup {i}
                                 ELSE last.halted))

RaceChildOutput ==
    \E p \in 1..Len(procs), e \in BOOLEAN, spawned \in BOOLEAN :
        LET c == procs[p].client IN
        /\ procs[p].state = "alive"
        /\ clients[c].process = p
        /\ \E k \in clients[c].pendingRequests :
              \E r \in {Drain(HandleStdout(CurSpawning(spawned), c,
                                           Append(ResponseText(k, e), NL)))} :
                  /\ Fits(r)
                  /\ Apply(r, RaceEvent("output", procs[p].mcp, TRUE, last.halted))

RaceChildExit ==
    \E p \in 1..Len(procs), spawned \in BOOLEAN :
        /\ procs[p].state \in {"alive", "failed"}
        /\ \E r \in {Drain(OnExit(CurSpawning(spawned), p))} :
              /\ Fits(r)
              /\ Apply(r, RaceEvent("exit", procs[p].mcp, TRUE, last.halted))

RaceChildError ==
    \E p \in 1..Len(procs), spawned \in BOOLEAN :
        /\ procs[p].state = "nospawn"
        /\ \E r \in {Drain(OnError(CurSpawning(spawned), p))} :
              /\ Fits(r)
              /\ Apply(r, RaceEvent("error", procs[p].mcp, TRUE, last.halted))

RaceTimeout ==
    \E c \in 1..Len(clients), spawned \in BOOLEAN :
        \E id \in clients[c].timers \cap clients[c].pendingRequests :
            /\ \A j \in clients[c].timers \cap clients[c].pendingRequests : id <= j
            /\ \E r \in {Drain(OnTimeout(CurSpawning(spawned), c, id))} :
                  /\ Fits(r)
                  /\ Apply(r, RaceEvent("timeout", clients[c].mcp, TRUE, last.halted))

RaceInit ==
    /\ clients = <<>>
    /\ procs = <<>>
    /\ tracing = FALSE
    /\ dispatched = <<>>
    /\ fed = <<>>
    /\ nchunks = 0
    /\ last = RaceEvent("none", "", TRUE, {})
    /\ runningProcesses = World0.runningProcesses
    /\ restarts = {}
    /\ NoProvider
    /\ config \in Configs

RaceNext ==
    \/ RaceLoad /\ UNCHANGED <<fed, nchunks, restarts>>
    \/ RaceReadDone /\ UNCHANGED <<fed, nchunks, restarts>>
    \/ RaceStart /\ UNCHANGED <<fed, nchunks, restarts>>
    \/ RaceStop /\ UNCHANGED <<fed, nchunks, restarts>>
    \/ RaceChildOutput /\ UNCHANGED <<fed, nchunks, restarts>>
    \/ RaceChildExit /\ UNCHANGED <<fed, nchunks, restarts>>
    \/ RaceChildError /\ UNCHANGED <<fed, nchunks, restarts>>
    \/ RaceTimeout /\ UNCHANGED <<fed, nchunks, restarts>>

SpecRace == RaceInit /\ [][RaceNext]_vars

---------------------------------------------------------------------------
(* Deactivation: the loads of the provider, then dispose() as called by    *)
(* deactivate().  Nothing is requested of the provider after dispose(); the *)
(* operations in flight, the child processes and the timers go on.         *)

\* MCPLensWebviewProvider.dispose
Dispose(w) == StopAllClients(w)

\* disposed: dispose() has returned
DispEvent(op, disposed) == [op |-> op, disposed |-> disposed]

DispLoad ==
    /\ ~last.disposed
    /\ LoadFits
    /\ \E r \in {Drain(LoadMCPs(Cur))} : Apply(r, DispEvent("load", FALSE))

DispDispose ==
    /\ ~last.disposed
    /\ \E r \in {Drain(Dispose(Cur))} : Apply(r, DispEvent("dispose", TRUE))

DispReadDone ==
    \E t \in 1..Len(tasks), spawned \in BOOLEAN :
        /\ tasks[t].pc \in {"readGlobal", "readWorkspace"}
        /\ \E r \in {Drain(ReadDone(CurSpawning(spawned), t))} :
              /\ Fits(r)
              /\ Apply(r, DispEvent("read", last.disposed))

DispChildOutput ==
    \E p \in 1..Len(procs), e \in BOOLEAN, spawned \in BOOLEAN :
        LET c == procs[p].client IN
        /\ procs[p].state = "alive"
        /\ clients[c].process = p
        /\ \E k \in clients[c].pendingRequests :
              \E r \in {Drain(HandleStdout(CurSpawning(spawned), c,
                                           Append(ResponseText(k, e), NL)))} :
                  /\ Fits(r)
                  /\ Apply(r, DispEvent("output", last.disposed))

DispChildExit ==
    \E p \in 1..Len(procs), spawned \in BOOLEAN :
        /\ procs[p].state \in {"alive", "failed"}
        /\ \E r \in {Drain(OnExit(CurSpawning(spawned), p))} :
              /\ Fits(r)
              /\ Apply(r, DispEvent("exit", last.disposed))

DispChildError ==
    \E p \in 1..Len(procs), spawned \in BOOLEAN :
        /\ procs[p].state = "nospawn"
        /\ \E r \in {Drain(OnError(CurSpawning(spawned), p))} :
              /\ Fits(r)
              /\ Apply(r, DispEvent("error", last.disposed))

DispTimeout ==
    \E c \in 1..Len(clients), spawned \in BOOLEAN :
        \E id \in clients[c].timers \cap clients[c].pendingRequests :
            /\ \A j \in clients[c].timers \cap clients[c].pendingRequests : id <= j
            /\ \E r \in {Drain(OnTimeout(CurSpawning(spawned), c, id))} :
                  /\ Fits(r)
                  /\ Apply(r, DispEvent("timeout", last.disposed))

DispInit ==
    /\ clients = <<>>
    /\ procs = <<>>
    /\ tracing = FALSE
    /\ dispatched = <<>>
    /\ fed = <<>>
    /\ nchunks = 0
    /\ last = DispEvent("none", FALSE)
    /\ runningProcesses = World0.runningProcesses
    /\ restarts = {}
    /\ NoProvider
    /\ config \in Configs

DispNext ==
    \/ DispLoad /\ UNCHANGED <<fed, nchunks, restarts>>
    \/ DispDispose /\ UNCHANGED <<fed, nchunks, restarts>>
    \/ DispReadDone /\ UNCHANGED <<fed, nchunks, restarts>>
    \/ DispChildOutput /\ UNCHANGED <<fed, nchunks, restarts>>
    \/ DispChildExit /\ UNCHANGED <<fed, nchunks, restarts>>
    \/ DispChildError /\ UNCHANGED <<fed, nchunks, restarts>>
    \/ DispTimeout /\ UNCHANGED <<fed, nchunks, restarts>>

SpecDispose == DispInit /\ [][DispNext]_vars

---------------------------------------------------------------------------
(* Reconnection: the two connections of a restart, the one that stopMCP    *)
(* stops and the one that startMCP makes for the same server name, each a  *)
(* new MCPClient that is started once, as fetchToolsForMCP makes them.     *)
(* The second is made when the first was stopped or lost its process; the  *)
(* child of the first may still write, its timers still fire.              *)

\* restartMCP: the connection it stops and the connection it starts
RestartConnections == 2

\* const client = new MCPClient(server, ...); await client.start()
Connect(w, name) ==
    Start([w EXCEPT !.clients = Append(@, NewClient(name, TRUE))],
          Len(w.clients) + 1, w.spawned)

ReConnect ==
    \E spawned \in BOOLEAN :
        /\ Len(clients) < RestartConnections
        /\ \A c \in 1..Len(clients) : clients[c].process = 0
        /\ Apply(Drain(Connect(CurSpawning(spawned), "a")),
                 Event("start", Len(clients) + 1, Len(procs) + 1, 0, <<>>, {}))

ReListTools ==
    \E c \in 1..Len(clients) :
        /\ clients[c].process # 0
        /\ clients[c].requestId < MaxReq
        /\ Apply(Drain(ListTools(Cur, c)),
                 Event("listTools", c, clients[c].process, 0, <<>>, {}))

ReStop ==
    \E c \in 1..Len(clients) :
        /\ clients[c].process # 0
        /\ Apply(Drain(Stop(Cur, c)),
                 Event("stop", c, clients[c].process, 0, <<>>, {}))

\* a 'data' event of the stdout of process p: a response to any id
ReChildOutput ==
    \E p \in 1..Len(procs), k \in 1..MaxReq :
        LET c == procs[p].client IN
        /\ procs[p].state = "alive"
        /\ Apply(Drain(HandleStdout(Cur, c, Append(ResponseText(k, FALSE), NL))),
                 Event("output", c, p, k, <<>>, {}))

ReChildExit ==
    \E p \in 1..Len(procs) :
        /\ procs[p].state \in {"alive", "failed"}
        /\ Apply(Drain(OnExit(Cur, p)),
                 Event("exit", procs[p].client, p, 0, <<>>, {}))

ReChildError ==
    \E p \in 1..Len(procs) :
        /\ procs[p].state = "nospawn"
        /\ Apply(Drain(OnError(Cur, p)),
                 Event("error", procs[p].client, p, 0, <<>>, {}))

\* the timers of one connection fire in the order they were set
ReTimeout ==
    \E c \in 1..Len(clients) :
        /\ clients[c].timers # {}
        /\ LET id == CHOOSE i \in clients[c].timers : \A j \in clients[c].timers : i <= j IN
           Apply(Drain(OnTimeout(Cur, c, id)),
                 Event("timeout", c, 0, id, <<>>, {}))

ReInit ==
    /\ clients = <<>>
    /\ procs = <<>>
    /\ tracing = FALSE
    /\ dispatched = <<>>
    /\ fed = <<>>
    /\ nchunks = 0
    /\ last = NoEvent
    /\ runningProcesses = World0.runningProcesses
    /\ restarts = {}
    /\ NoProvider
    /\ config = World0.config

ReNext ==
    \/ ReConnect /\ UNCHANGED <<fed, nchunks, restarts>>
    \/ ReListTools /\ UNCHANGED <<fed, nchunks, restarts>>
    \/ ReStop /\ UNCHANGED <<fed, nchunks, restarts>>
    \/ ReChildOutput /\ UNCHANGED <<fed, nchunks, restarts>>
    \/ ReChildExit /\ UNCHANGED <<fed, nchunks, restarts>>
    \/ ReChildError /\ UNCHANGED <<fed, nchunks, restarts>>
    \/ ReTimeout /\ UNCHANGED <<fed, nchunks, restarts>>

SpecReconnect == ReInit /\ [][ReNext]_vars

---------------------------------------------------------------------------
(* The claims.                                                             *)

Calls(c) == clients[c].calls
Ids(c) == 1..Len(clients[c].calls)

\* C1: a response frame carrying id k settles the request sent with id k and
\* no other: every resolved request was resolved by a frame carrying its own
\* id, and a frame whose id is pending resolves that request and removes only
\* its entry, whatever the order of arrival.
C1_ResponseSettlesItsRequest ==
    /\ \A c \in 1..Len(clients) : \A id \in Ids(c) :
          Calls(c)[id].state = "resolved"
              => Calls(c)[id].reply.hasId /\ Calls(c)[id].reply.id = id
    /\ (last.op = "output" /\ last.id \in last.pending)
          => /\ Calls(last.c)[last.id].state = "resolved"
             /\ clients[last.c].pendingRequests = last.pending \ {last.id}

\* two requests were pending at once and the response to the later one came first
C1_Witness ==
    /\ last.op = "output" /\ last.id = 2 /\ last.pending = {1, 2}
    /\ Calls(1)[2].state = "resolved"
    /\ Calls(1)[1].state = "pending"

\* C2: stop() on a connection with M pending requests settles each of them
\* with a failure and leaves the pending map empty.
C2_StopRejectsAllPending ==
    last.op = "stop"
        => /\ \A id \in last.pending : Calls(last.c)[id].state = "rejected"
           /\ clients[last.c].pendingRequests = {}

\* C3: when the child exits unexpectedly, every request pending at that
\* moment is settled with a failure.
C3_ExitRejectsAllPending ==
    (last.op = "exit" /\ ~procs[last.p].killed)
        => \A id \in last.pending : Calls(last.c)[id].state = "rejected"

C4_TimedOut(c, id) == Calls(c)[id].reason = "timeout"

C4_TimeoutSettlesOnce ==
    \A c \in 1..Len(clients) : \A id \in Ids(c) :
        C4_TimedOut(c, id)
            => /\ Calls(c)[id].state = "rejected"
               /\ Calls(c)[id].settles = 1
               /\ id \notin clients[c].pendingRequests

C4_LateResponseStep ==
    (last'.op = "output" /\ last'.id \in Ids(last'.c) /\ C4_TimedOut(last'.c, last'.id))
        => clients' = clients /\ procs' = procs

\* C4: a request whose timer fires before its response is settled exactly once,
\* with a timeout failure, and its entry is removed; a response for that id
\* arriving afterwards settles nothing and changes nothing of the connection.
C4_TimeoutThenLateResponse == []C4_TimeoutSettlesOnce /\ [][C4_LateResponseStep]_vars

\* a response arrived for a request that had already timed out
C4_Witness ==
    /\ last.op = "output" /\ last.id \in Ids(last.c)
    /\ C4_TimedOut(last.c, last.id)

\* C5: if the child exits before any response to initialize was received,
\* start() eventually fails: at the latest when the timer of the initialize
\* request has fired, the promise of start() is rejected.
C5_StartFailsAfterEarlyExit ==
    \A p \in 1..Len(procs) : \A id \in Ids(procs[p].client) :
        LET call == Calls(procs[p].client)[id] IN
        (/\ call.start = p
         /\ procs[p].state = "exited"
         /\ call.state # "resolved"
         /\ id \notin clients[procs[p].client].timers)
            => procs[p].start = "rejected"

\* C6: a message followed by one terminator, cut into chunks anywhere, is
\* dispatched exactly once, equal to the message, and not before the chunk
\* with the terminator has been consumed.
C6_ChunkedMessageDispatchedOnce ==
    LET lines == Split(fed) IN
    /\ Len(lines) = 1 => dispatched = <<>>
    /\ (Len(lines) = 2 /\ JSONparse(lines[1]).ok)
          => dispatched = <<JSONparse(lines[1])>>

\* the response {1} arrived one character per chunk
C6_Witness ==
    /\ fed = <<"{", "1", "}", NL>>
    /\ nchunks = 4
    /\ dispatched = <<Frame(TRUE, 1, FALSE)>>

\* C10: no request other than initialize is written to the child before the
\* initialized notification (which follows the initialize response) was written.
C10_NoCallBeforeHandshake ==
    \A p \in 1..Len(procs) : \A i \in 1..Len(procs[p].stdin) :
        procs[p].stdin[i].method = "tools/list"
            => \E j \in 1..(i - 1) : procs[p].stdin[j].method = "initialized"

C7_DuplicateStartStep ==
    (last'.op = "startMCPServer" /\ last'.before # 0)
        => /\ last'.result = FALSE
           /\ procs' = procs
           /\ runningProcesses' = runningProcesses

\* C7: startMCPServer for a name that has an entry is rejected without side
\* effects: it returns false, spawns nothing and leaves the registered process
\* and the registry as they were.
C7_DuplicateStartRejected == [][C7_DuplicateStartStep]_vars

\* startMCPServer was called for a name whose registered process is running
C7_Witness ==
    /\ last.op = "startMCPServer" /\ last.before # 0
    /\ procs[last.before].state = "alive"

\* the child processes that run and were not sent a signal
Live == {p \in 1..Len(procs) : procs[p].state = "alive" /\ ~procs[p].killed}

\* C8: under every interleaving of loadMCPs, startMCP, stopMCP and restartMCP
\* at most one live child process exists per server name at any instant
C8_OneLiveProcessPerName ==
    \A p \in Live, q \in Live : procs[p].mcp = procs[q].mcp => p = q

\* C9: after any sequence of refreshes, once their discovery passes are
\* over, every child process still alive is the process of the client the
\* connection table holds for its name
C9_NoProcessWithoutEntry ==
    tasks = <<>>
        => \A p \in Live : /\ mcpClients[procs[p].mcp] = procs[p].client
                           /\ clients[procs[p].client].process = p

\* the connection has no process that runs: none was started, it was stopped,
\* its process has exited, or the spawn failed and the 'error' event was handled
C11_NoRunningProcess ==
    clients[1].process = 0 \/ procs[clients[1].process].state \in {"failed", "exited"}

C11_RejectedStep ==
    (last'.op = "listTools" /\ C11_NoRunningProcess)
        => /\ procs' = procs
           /\ clients'[1].pendingRequests = clients[1].pendingRequests
           /\ clients'[1].requestId = clients[1].requestId

\* C11: a call issued on a connection that has no running process writes
\* nothing to any child process, creates no pending entry and does not
\* advance the request id counter
C11_CallWithoutProcessRejected == [][C11_RejectedStep]_vars

\* C12: listTools() completes with an empty list when its request got an
\* error response or timed out, and when it was issued on a connection that
\* is not started
C12_ListToolsNeverFails ==
    /\ \A id \in Ids(1) :
          LET call == Calls(1)[id] IN
          (/\ call.method = "tools/list"
           /\ \/ call.state = "rejected"
              \/ call.state = "resolved" /\ call.reply.error)
              => call.result = "empty"
    /\ (last.op = "listTools" /\ last.p = 0) => clients[1].refusedTools = "empty"

C12_Witness ==
    \E id \in Ids(1) :
        /\ Calls(1)[id].method = "tools/list"
        /\ Calls(1)[id].reason = "timeout"
        /\ Calls(1)[id].result = "empty"

C13_SecondStopStep ==
    (last'.op = "stop" /\ (last.op = "stop" \/ procs = <<>>))
        => clients' = clients /\ procs' = procs

\* C13: stop() called right after stop(), or on a connection that was never
\* started, sends no signal and changes no field
C13_StopIdempotent == [][C13_SecondStopStep]_vars

C13_Witness ==
    /\ last.op = "stop"
    /\ last.p = 0
    /\ \E p \in 1..Len(procs) :
          /\ procs[p].client = 1
          /\ procs[p].state = "alive"
          /\ procs[p].signals = 1

C18_NoEntryForFailedSpawn ==
    \A n \in Names :
        runningProcesses[n] # 0 => procs[runningProcesses[n]].state # "nospawn"

C19_RestartStep ==
    LET name == last'.name
        old == runningProcesses[name]
    IN /\ (last'.op = "restartMCPServer" /\ old # 0)
            => /\ Len(procs') = Len(procs)
               /\ runningProcesses'[name] = 0
               /\ procs[old].state = "alive" => procs'[old].signals = procs[old].signals + 1
               /\ name \in restarts'
       /\ (last'.op = "restartMCPServer" /\ old = 0)
            => /\ \E spawned \in BOOLEAN :
                    LET r == StartMCPServer(Cur, name, spawned) IN
                    procs' = r.procs /\ runningProcesses' = r.runningProcesses
               /\ SubSeq(procs', 1, Len(procs)) = procs
               /\ restarts' = restarts
       /\ last'.op = "restartResume"
            => /\ name \in restarts
               /\ \E spawned \in BOOLEAN :
                    LET r == StartMCPServer(Cur, name, spawned) IN
                    procs' = r.procs /\ runningProcesses' = r.runningProcesses

\* C19: restartMCPServer of a registered name signals the old process and
\* removes its entry, and starts and registers the new process only after
\* the settling delay; of a name without entry it is startMCPServer
C19_RestartStopsWaitsStarts == [][C19_RestartStep]_vars

C19_Witness ==
    /\ last.op = "restartResume"
    /\ last.before = 0
    /\ runningProcesses[last.name] = Len(procs)
    /\ \E p \in 1..(Len(procs) - 1) :
          procs[p].mcp = last.name /\ procs[p].killed

C20_StopAllStep ==
    last'.op = "stopAllMCPs"
        => /\ \A n \in Names : runningProcesses'[n] = 0
           /\ Len(procs') = Len(procs)
           /\ \A p \in 1..Len(procs) :
                 IF (\E n \in Names : runningProcesses[n] = p) /\ procs[p].state = "alive"
                 THEN procs'[p] = [procs[p] EXCEPT !.killed = TRUE, !.signals = 1]
                 ELSE procs'[p] = procs[p]

\* C20: stopAllMCPs signals every registered process once, empties the
\* registry, and returns while the processes still run
C20_StopAllSignalsOnce == [][C20_StopAllStep]_vars

C20_Witness ==
    /\ last.op = "stopAllMCPs"
    /\ last.before = 2
    /\ \E p \in 1..Len(procs), q \in 1..Len(procs) :
          /\ procs[p].mcp # procs[q].mcp
          /\ procs[p].state = "alive" /\ procs[p].signals = 1
          /\ procs[q].state = "alive" /\ procs[q].signals = 1

\* what the operation of task t awaits can still be settled: the 'error'
\* event of a failed spawn is yet to come, or the request is pending, so that
\* a response or its timer settles it
C14_CanResume(t) ==
    LET task == tasks[t]
        pend == clients[task.client].pendingRequests
    IN CASE task.pc = "start" ->
               \/ procs[task.await].state = "nospawn"
               \/ \E id \in pend : Calls(task.client)[id].start = task.await
         [] task.pc = "tools" -> task.await \in pend
         [] OTHER -> TRUE

\* C14: the discovery pass is never stopped at an entry: whatever happens to
\* the entry being processed, the pass can go on to the entries after it
C14_EveryEntryProcessed ==
    \A t \in 1..Len(tasks) : C14_CanResume(t)

\* the tools/list request of client c failed: error response or timeout
C15_ListToolsFailed(c) ==
    \E id \in Ids(c) :
        /\ Calls(c)[id].method = "tools/list"
        /\ \/ Calls(c)[id].state = "rejected"
           \/ Calls(c)[id].state = "resolved" /\ Calls(c)[id].reply.error

\* C15: an entry whose tool enumeration failed has status error and an empty
\* tool list
C15_FailureRecordedAsError ==
    \A i \in 1..Len(items), c \in 1..Len(clients) :
        (clients[c].mcp = items[i].name /\ C15_ListToolsFailed(c))
            => items[i].status = "error" /\ items[i].tools = "empty"

\* item i is an entry of the lists
C16_Listed(i) ==
    \/ \E k \in 1..Len(globalMCPServers) : globalMCPServers[k] = i
    \/ \E k \in 1..Len(workspaceMCPServers) : workspaceMCPServers[k] = i

\* the message posted last carries item i as it is
C16_Reflected(i) ==
    \/ \E k \in 1..Len(globalMCPServers) :
          /\ globalMCPServers[k] = i
          /\ k <= Len(posted.global)
          /\ posted.global[k] = items[i]
    \/ \E k \in 1..Len(workspaceMCPServers) :
          /\ workspaceMCPServers[k] = i
          /\ k <= Len(posted.local)
          /\ posted.local[k] = items[i]

C16_EntryCompletedStep ==
    \A i \in 1..Len(items) :
        (items'[i] # items[i] /\ view # "none" /\ C16_Listed(i))
            => /\ C16_Reflected(i)'
               /\ posted'.at = Len(procs)

\* C16: when an entry of the lists completes, the view is sent a message
\* carrying the entry's result before the process of the next entry is
\* spawned
C16_SnapshotAfterEachEntry == [][C16_EntryCompletedStep]_vars

\* the connection is Ready: the start() that spawned its process has resolved
\* and the connection was neither stopped nor lost that process
C21_Ready(c) ==
    /\ clients[c].process # 0
    /\ procs[clients[c].process].start = "resolved"

\* C21: isRunning() returns true exactly when the connection is Ready
C21_IsRunningIffReady ==
    \A c \in 1..Len(clients) : IsRunning(Cur, c) <=> C21_Ready(c)

\* the requests written to the children of connection c: <<pid, position>>
C22_Writes(c) ==
    {pi \in (1..Len(procs)) \X (1..(MaxReq + MaxProc)) :
        /\ procs[pi[1]].client = c
        /\ pi[2] <= Len(procs[pi[1]].stdin)
        /\ procs[pi[1]].stdin[pi[2]].id # 0}

C22_WrittenId(pi) == procs[pi[1]].stdin[pi[2]].id

\* pi was written before qi
C22_Before(pi, qi) == pi[1] < qi[1] \/ (pi[1] = qi[1] /\ pi[2] < qi[2])

\* the ids written so far are 1, 2, ..., requestId, in this order
C22_IdsInOrder ==
    \A c \in 1..Len(clients) :
        /\ Cardinality(C22_Writes(c)) = clients[c].requestId
        /\ Len(clients[c].calls) = clients[c].requestId
        /\ \A pi \in C22_Writes(c) : C22_WrittenId(pi) \in 1..clients[c].requestId
        /\ \A pi, qi \in C22_Writes(c) :
              C22_Before(pi, qi) => C22_WrittenId(pi) < C22_WrittenId(qi)

\* the counter moves only up, by one per request, and only a call moves it
C22_CounterStep ==
    \A c \in 1..Len(clients) :
        /\ clients'[c].requestId \in {clients[c].requestId, clients[c].requestId + 1}
        /\ last'.op \in {"stop", "exit", "error", "timeout", "output"}
              => clients'[c].requestId = clients[c].requestId

\* C22: the ids of the requests of a connection are 1, 2, 3, ... in the order
\* of issue; stop, exit, timeout and response leave the counter as it is and
\* no id is given to two requests
C22_IdsIncreaseNeverReused == []C22_IdsInOrder /\ [][C22_CounterStep]_vars

\* a second request was issued after the first one had timed out
C22_Witness ==
    /\ last.op = "listTools"
    /\ clients[1].requestId = 2
    /\ 2 \in clients[1].pendingRequests
    /\ Calls(1)[1].reason = "timeout"

\* the first request written to the child of every connection carries id 1
C23_FirstIdIsOne ==
    \A p \in 1..Len(procs) :
        procs[p].stdin # <<>> =>
            /\ procs[p].stdin[1].method = "initialize"
            /\ procs[p].stdin[1].id = 1

\* a frame written by the child of one connection, and a timer of one
\* connection, leave every other connection as it is
C23_OtherConnectionsStep ==
    last'.op \in {"output", "timeout"} =>
        \A d \in 1..Len(clients) : d # last'.c => clients'[d] = clients[d]

\* C23: a connection made for a server name after the earlier one was
\* stopped with requests pending numbers its requests from 1, and neither a
\* frame from the old child nor a timer of the old connection settles or
\* removes a pending request of the new connection
C23_FreshIdsNoCrossTalk == []C23_FirstIdIsOne /\ [][C23_OtherConnectionsStep]_vars

\* the first connection was stopped with its requests 1 and 2 pending; its
\* child, signalled but still running, writes a response to id 1 while the
\* request 1 of the second connection is pending
C23_Witness ==
    /\ Len(clients) = 2
    /\ last.op = "output" /\ last.c = 1 /\ last.id = 1
    /\ procs[1].killed
    /\ Len(Calls(1)) = 2
    /\ \A id \in Ids(1) : Calls(1)[id].state # "resolved" /\ ~C4_TimedOut(1, id)
    /\ 1 \in clients[2].pendingRequests
    /\ Calls(2)[1].state = "pending"

\* C24: no entry of mcpClients is the connection of a child process that
\* exited without having been signalled by stop
C24_ExitRemovesEntry ==
    \A n \in Names, p \in 1..Len(procs) :
        (procs[p].state = "exited" /\ ~procs[p].killed)
            => mcpClients[n] # procs[p].client

\* once dispose() has returned, every child process that runs was signalled
C25_NoneRunningUnsignalled ==
    last.disposed =>
        \A p \in 1..Len(procs) : procs[p].state = "alive" => procs[p].killed

\* once dispose() has returned, no process is spawned
C25_NoSpawnStep == last.disposed => Len(procs') = Len(procs)

\* C25: after dispose() no child process of the provider runs unsignalled,
\* those whose start or tool discovery was in progress included, and no
\* process is spawned any more
C25_DisposeStopsEverything == []C25_NoneRunningUnsignalled /\ [][C25_NoSpawnStep]_vars

\* the complete lines of a text: what stands before each terminator
LinesOf(t) == SubSeq(Split(t), 1, Len(Split(t)) - 1)

\* the frames of the lines that are not blank and are JSON, in order
RECURSIVE FramesOf(_)
FramesOf(lines) ==
    IF lines = <<>> THEN <<>>
    ELSE IF TrimNonEmpty(Head(lines)) /\ JSONparse(Head(lines)).ok
         THEN <<JSONparse(Head(lines))>> \o FramesOf(Tail(lines))
    ELSE FramesOf(Tail(lines))

\* C26: lines that are not JSON are skipped and change nothing: the process,
\* the id counter and the pending map are as the valid lines alone leave
\* them, and every valid line received, before or after a bad one, in the
\* same chunk or in a later one, was dispatched
C26_BadLineDiscarded ==
    LET frames == FramesOf(LinesOf(fed)) IN
    /\ dispatched = frames
    /\ clients[1].process = FrameWorld.clients[1].process
    /\ procs[1].state = "alive" /\ procs[1].signals = 0
    /\ clients[1].requestId = FrameWorld.clients[1].requestId
    /\ clients[1].pendingRequests =
           FrameWorld.clients[1].pendingRequests
               \ {frames[i].id : i \in {j \in 1..Len(frames) : frames[j].hasId}}

\* one chunk carried a line that is not JSON and then the response {1}
C26_Witness ==
    /\ fed = <<"}", NL, "{", "1", "}", NL>>
    /\ nchunks = 1
    /\ dispatched = <<Frame(TRUE, 1, FALSE)>>
    /\ Calls(1)[1].state = "resolved"

\* C27: a request is resolved only by a frame that is a response, one with a
\* result or an error: a frame that lacks both, such as a request of the
\* server, settles nothing, whatever id it carries
C27_OnlyResponsesSettle ==
    \A c \in 1..Len(clients) : \A id \in Ids(c) :
        Calls(c)[id].state = "resolved"
            => Calls(c)[id].reply.result \/ Calls(c)[id].reply.error

C28_UnmatchedFrameStep ==
    (last'.op = "output" /\ last'.id \notin last'.pending)
        => /\ clients'[last'.c].pendingRequests = last'.pending
           /\ clients'[last'.c].calls = clients[last'.c].calls
           /\ procs' = procs

\* C28: a frame without an id, with an id that is not a number, or with an
\* id that matches no pending entry leaves the pending map as it is and
\* settles no request
C28_UnmatchedFrameIgnored == [][C28_UnmatchedFrameStep]_vars

\* a response to id 2 arrived while only request 1 was pending
C28_Witness ==
    /\ last.op = "output" /\ last.id = 2 /\ last.pending = {1}
    /\ clients[1].pendingRequests = {1}
    /\ Calls(1)[1].state = "pending"

\* the text after the last terminator of t
OpenLine(t) == Split(t)[Len(Split(t))]

C29_BeforeCleanup == SubSeq(fed, 1, Len(fed) - Len(last.since))

C30_Untouched(p) ==
    /\ procs'[p].state = procs[p].state
    /\ procs'[p].killed = procs[p].killed
    /\ procs'[p].signals = procs[p].signals

C30_TimeoutStep ==
    last'.op = "timeout" =>
        LET c == last'.c
            id == last'.id
        IN /\ clients'[c].pendingRequests = clients[c].pendingRequests \ {id}
           /\ \A j \in Ids(c) : j # id => clients'[c].calls[j] = Calls(c)[j]
           /\ clients'[c].process = clients[c].process
           /\ clients'[c].buffer = clients[c].buffer
           /\ clients'[c].requestId = clients[c].requestId
           /\ Len(procs') = Len(procs)
           /\ \A p \in 1..Len(procs) : C30_Untouched(p)

\* C30: the timeout of a request fails that request only: the other pending
\* requests stay pending, the process is not signalled and stays the
\* connection's process, the buffer and the id counter are unchanged
C30_TimeoutFailsOneRequest == [][C30_TimeoutStep]_vars

\* request 1 timed out while request 2 was pending; request 2 is pending
\* still, on a process that runs unsignalled
C30_Witness ==
    /\ last.op = "timeout" /\ last.id = 1 /\ last.pending = {1, 2}
    /\ C4_TimedOut(1, 1)
    /\ clients[1].pendingRequests = {2}
    /\ Calls(1)[2].state = "pending"
    /\ clients[1].process = 1
    /\ procs[1].state = "alive" /\ ~procs[1].killed

C31_Written(p, method) ==
    \E i \in 1..Len(procs[p].stdin) : procs[p].stdin[i].method = method

\* the initialize request of the start() call that spawned process p
C31_Initialize(p) ==
    {id \in Ids(procs[p].client) :
        /\ Calls(procs[p].client)[id].start = p
        /\ Calls(procs[p].client)[id].method = "initialize"}

\* a start() that succeeded: initialize was written, then initialized, and
\* the request was settled by a response with its id that has a result and
\* no error
C31_Succeeded ==
    \A p \in 1..Len(procs) :
        procs[p].start = "resolved" =>
            \E id \in C31_Initialize(p) :
                LET call == Calls(procs[p].client)[id] IN
                /\ \E i, j \in 1..Len(procs[p].stdin) :
                      /\ i < j
                      /\ procs[p].stdin[i] = [method |-> "initialize", id |-> id]
                      /\ procs[p].stdin[j].method = "initialized"
                /\ call.state = "resolved"
                /\ call.reply.id = id
                /\ ~call.reply.error
                /\ call.reply.result

\* an initialize request answered with an error: start() failed and no
\* initialized notification was written
C31_ErrorFails ==
    \A p \in 1..Len(procs) : \A id \in C31_Initialize(p) :
        LET call == Calls(procs[p].client)[id] IN
        call.state = "resolved" /\ call.reply.error =>
            /\ procs[p].start = "rejected"
            /\ ~C31_Written(p, "initialized")

\* the step that writes the initialized notification is the arrival of the
\* frame with the id of the initialize request, written before; start() had
\* not succeeded before it
C31_NotifyStep ==
    \A p \in 1..Len(procs) :
        ~C31_Written(p, "initialized") /\ C31_Written(p, "initialized")' =>
            /\ procs[p].start = "pending"
            /\ last'.op = "output"
            /\ last'.id \in C31_Initialize(p)
            /\ procs[p].stdin[1] = [method |-> "initialize", id |-> last'.id]

\* C31: start() succeeds only after the initialize request was written, then
\* a response with its id and without error was received, then the
\* initialized notification was written; when the initialize response
\* carries an error, start() fails and initialized is never written
C31_StartAfterHandshake ==
    [](C31_Succeeded /\ C31_ErrorFails) /\ [][C31_NotifyStep]_vars

\* resolve or reject was called at most once on the promise of every request
C32_SettledAtMostOnce ==
    \A c \in 1..Len(clients) : \A id \in Ids(c) : Calls(c)[id].settles <= 1

\* a request whose pending entry is gone: no step puts the entry back, and
\* no step touches its promise again
C32_AfterRemovalStep ==
    \A c \in 1..Len(clients) : \A id \in Ids(c) :
        id \notin clients[c].pendingRequests =>
            /\ id \notin clients'[c].pendingRequests
            /\ clients'[c].calls[id] = clients[c].calls[id]

\* C32: the promise of each request is settled at most once and its pending
\* entry is removed at most once, in whatever order its response, its timer
\* and stop() or the exit of the process come; those that come after the
\* first change nothing
C32_SettledAndRemovedOnce ==
    []C32_SettledAtMostOnce /\ [][C32_AfterRemovalStep]_vars

\* the timer of a request fired after its response had settled it
C32_Witness ==
    /\ last.op = "timeout"
    /\ last.id \notin last.pending
    /\ Calls(1)[last.id].state = "resolved"
    /\ Calls(1)[last.id].settles = 1

\* the operations that are an explicit request to start a server
C33_StartOperations == {"start", "startMCPServer", "restartMCPServer", "restartResume"}

\* a step that spawns a process is such an operation, and a process that
\* does not run is never running again
C33_SpawnStep ==
    /\ Len(procs') > Len(procs) => last'.op \in C33_StartOperations
    /\ \A p \in 1..Len(procs) :
          procs[p].state # "alive" => procs'[p].state # "alive"

\* C33: a child process is spawned only by an explicit start or restart
\* operation; the exit of a process, a request timeout or a malformed frame
\* spawns nothing
C33_SpawnOnlyOnRequest == [][C33_SpawnStep]_vars

\* a process exited by itself while a request was pending, and no process
\* was spawned for it
C33_Witness ==
    /\ last.op = "exit"
    /\ last.pending # {}
    /\ ~procs[last.p].killed
    /\ Len(procs) = 1

\* the request was written and its timer has fired: nothing that could
\* settle it is still to come
C34_TimerFired(c, id) == id \notin clients[c].timers

\* C34: every request written to the child eventually settles, with its
\* response, a timeout failure or a teardown failure, given that timers
\* fire; so every start() and listTools() call eventually completes.  In
\* the form a finite run decides: once the timer of a request has fired the
\* request is settled, and the start() or listTools() call that made it has
\* completed.
C34_EveryRequestSettles ==
    \A c \in 1..Len(clients) : \A id \in Ids(c) :
        C34_TimerFired(c, id) =>
            /\ Calls(c)[id].state \in {"resolved", "rejected"}
            /\ Calls(c)[id].method = "initialize"
                  => procs[Calls(c)[id].start].start # "pending"
            /\ Calls(c)[id].method = "tools/list"
                  => Calls(c)[id].result # "none"

\* every process that runs and was not signalled is the entry of its name
C35_LiveHasEntry ==
    \A p \in 1..Len(procs) :
        procs[p].state = "alive" /\ procs[p].signals = 0
            => runningProcesses[procs[p].mcp] = p

\* an 'exit' or 'error' event removes no entry but that of its own process
C35_StaleEventStep ==
    last'.op \in {"exit", "error"} =>
        \A n \in Names :
            runningProcesses[n] # 0 /\ runningProcesses'[n] = 0
                => procs'[runningProcesses[n]].state # "alive"

\* C35: in the registry, the exit or error event of a process that was
\* stopped never removes the entry of a newer process registered under the
\* same name, and every process that is alive and was not signalled has an
\* entry under its name
C35_NoStaleRemoval == []C35_LiveHasEntry /\ [][C35_StaleEventStep]_vars

\* no process was spawned for a server that is marked disabled
C37_DisabledNotSpawned ==
    \A p \in 1..Len(procs) : procs[p].mcp \notin config.disabled

\* the item of a server that is marked disabled has status stopped
C37_DisabledStaysStopped ==
    \A i \in 1..Len(items) : items[i].disabled => items[i].status = "stopped"

\* C37: a server whose configuration is marked disabled is never spawned by
\* the discovery pass of loadMCPs, and its status stays stopped (no start
\* is requested by the user in this specification)
C37_DisabledNeverDiscovered ==
    C37_DisabledNotSpawned /\ C37_DisabledStaysStopped

\* C36: a stopMCP handled while a start or the discovery of the same server
\* was in flight is not lost: once that fetch is over too, and no start was
\* requested since, the server has no live process, no entry in the
\* connection table and status stopped
C36_StopNotLost ==
    \A i \in last.halted :
        ~InFlight(Cur, i) =>
            /\ items[i].status = "stopped"
            /\ mcpClients[items[i].name] = 0
            /\ \A p \in Live : procs[p].mcp # items[i].name

\* the items of the message posted last
C38_Reported ==
    {posted.global[i] : i \in 1..Len(posted.global)}
        \cup {posted.local[i] : i \in 1..Len(posted.local)}

\* the connection table holds a client for the name whose process runs
C38_Connected(name) ==
    /\ mcpClients[name] # 0
    /\ IsRunning(Cur, mcpClients[name])
    /\ procs[clients[mcpClients[name]].process].state = "alive"

\* a step that posts a message: every server the message reports as running
\* has a connection whose process is alive
C38_PostStep ==
    posted' # posted =>
        \A item \in C38_Reported' :
            item.status = "running" => C38_Connected(item.name)'

\* C38: in every snapshot pushed to the view, a server reported as running
\* has an entry in the connection table whose process is alive; a server
\* whose process has exited or whose latest start failed is not reported as
\* running
C38_RunningMeansConnected == [][C38_PostStep]_vars

\* the processes started for the server of the same name in the other list
C39_OfTheOther(name, isGlobal) ==
    {p \in 1..Len(procs) :
        procs[p].mcp = name /\ clients[procs[p].client].isGlobal # isGlobal}

\* the connection whose fetch was started by startMCP or restartMCP
C39_StartedByRequest(c) ==
    \E t \in 1..Len(tasks) :
        tasks[t].client = c /\ tasks[t].kind \in {"start", "restart"}

\* a stopMCP, startMCP or restartMCP for (name, isGlobal) sends no signal to
\* a process of the other server and does not remove its entry
C39_RequestStep ==
    last'.op \in {"start", "stop", "restart"} =>
        \A p \in C39_OfTheOther(last'.name, last'.isGlobal) :
            /\ procs'[p].signals = procs[p].signals
            /\ mcpClients[last'.name] = procs[p].client
                  => mcpClients'[last'.name] = procs[p].client

\* the connection that a startMCP or restartMCP registers replaces no entry
\* of the server in the other list
C39_ReplaceStep ==
    \A n \in Names :
        LET c == mcpClients[n]
            d == mcpClients'[n]
        IN (c # 0 /\ d # 0 /\ d # c /\ C39_StartedByRequest(d))
              => clients[c].isGlobal = clients'[d].isGlobal

\* C39: when both lists hold a server of the same name, stopMCP, startMCP
\* and restartMCP addressed to one of them never signal, replace or
\* unregister the process that was started for the other
C39_SameNameIsolated == [][C39_RequestStep /\ C39_ReplaceStep]_vars

====
